---- MODULE Spec2Model ----
(***************************************************************************)
(* Model of the IPv4 subnet calculator, src/subnet_calculator.py:          *)
(* SubnetCalculator.validate_ip_network, get_network_info, subnet_network, *)
(* find_subnet_for_hosts, _get_ip_class and get_supernet, together with    *)
(* the parts of Python's ipaddress module those methods call.              *)
(*                                                                         *)
(* Python integers are unbounded and the program handles values up to      *)
(* 2^33; TLC's integers are 32-bit.  Every address-sized integer is        *)
(* therefore held as a pair <<hi, lo>> standing for hi * 2^16 + lo with    *)
(* 0 <= lo < 2^16, and the arithmetic below is exact on such pairs.        *)
(***************************************************************************)
EXTENDS Integers, Sequences, FiniteSets, TLC

VARIABLES op, args, ret, earlier

vars == <<op, args, ret, earlier>>

(***************************************************************************)
(* Exact integers wider than 31 bits                                       *)
(***************************************************************************)
Limb == 2^16

\* the integer n (small enough for TLC) as a wide integer
W(n) == <<n \div Limb, n % Limb>>

WNorm(hi, lo) == <<hi + (lo \div Limb), lo % Limb>>

WAdd(a, b) == WNorm(a[1] + b[1], a[2] + b[2])

WSub(a, b) == WNorm(a[1] - b[1], a[2] - b[2])

WLt(a, b) == a[1] < b[1] \/ (a[1] = b[1] /\ a[2] < b[2])

WLe(a, b) == a = b \/ WLt(a, b)

\* 1 << k
WPow2(k) == IF k < 16 THEN <<0, 2^k>> ELSE <<2^(k - 16), 0>>

RECURSIVE BitAnd(_, _)
BitAnd(x, y) ==
    IF x = 0 \/ y = 0 THEN 0
    ELSE (x % 2) * (y % 2) + 2 * BitAnd(x \div 2, y \div 2)

RECURSIVE BitOr(_, _)
BitOr(x, y) ==
    IF x = 0 THEN y
    ELSE IF y = 0 THEN x
    ELSE (IF x % 2 = 1 \/ y % 2 = 1 THEN 1 ELSE 0) + 2 * BitOr(x \div 2, y \div 2)

RECURSIVE BitXor(_, _)
BitXor(x, y) ==
    IF x = 0 THEN y
    ELSE IF y = 0 THEN x
    ELSE ((x + y) % 2) + 2 * BitXor(x \div 2, y \div 2)

\* a & b, a | b, a ^ b on non-negative wide integers
WAnd(a, b) == <<BitAnd(a[1], b[1]), BitAnd(a[2], b[2])>>

WOr(a, b) == <<BitOr(a[1], b[1]), BitOr(a[2], b[2])>>

WXor(a, b) == <<BitXor(a[1], b[1]), BitXor(a[2], b[2])>>

\* a << 8
WShl8(a) == <<a[1] * 256 + (a[2] \div 256), (a[2] % 256) * 256>>

RECURSIVE PopCount(_)
PopCount(x) == IF x = 0 THEN 0 ELSE (x % 2) + PopCount(x \div 2)

\* bin(a).count('1')
WPopCount(a) == PopCount(a[1]) + PopCount(a[2])

RECURSIVE BitLen(_)
BitLen(x) == IF x = 0 THEN 0 ELSE 1 + BitLen(x \div 2)

\* a.bit_length()
WBitLength(a) == IF a[1] > 0 THEN 16 + BitLen(a[1]) ELSE BitLen(a[2])

RECURSIVE TrailingZeros(_)
TrailingZeros(x) == IF x % 2 = 1 THEN 0 ELSE 1 + TrailingZeros(x \div 2)

Min(x, y) == IF x <= y THEN x ELSE y

(***************************************************************************)
(* ipaddress: IPv4 addresses and networks                                  *)
(***************************************************************************)
\* IPv4 address width (_max_prefixlen); the calculator writes it as the
\* literal 32
MaxPrefixLen == 32

\* IPv4Address._ALL_ONES = 2^32 - 1
AllOnes == <<Limb - 1, Limb - 1>>

\* the four octets of a dotted-decimal address as one integer
IntFromOctets(o) == <<o[1] * 256 + o[2], o[3] * 256 + o[4]>>

\* address.packed: the integer as four octets, most significant first
Packed(a) == <<a[1] \div 256, a[1] % 256, a[2] \div 256, a[2] % 256>>

\* IPv4Network._make_netmask: _ALL_ONES ^ (_ALL_ONES >> prefixlen)
Netmask(n) == WXor(AllOnes, WSub(WPow2(MaxPrefixLen - n), W(1)))

\* network.hostmask
Hostmask(n) == WXor(Netmask(n), AllOnes)

\* a network value: network address and prefix length
Net(base, n) == [base |-> base, prefix |-> n]

\* network.broadcast_address = network_address | hostmask
Broadcast(net) == WOr(net.base, Hostmask(net.prefix))

\* network.num_addresses = broadcast - network + 1
NumAddresses(net) == WAdd(WSub(Broadcast(net), net.base), W(1))

\* an octet string "\d+" is accepted by IPv4Address when its value is <= 255
ValidOctets(o) == \A i \in 1..4 : o[i] >= 0 /\ o[i] <= 255

Failure(e) == [ok |-> FALSE, err |-> e]

\* IPv4Network built strictly: an address with host bits set is refused
IPv4NetworkStrict(octets, n) ==
    IF ~ValidOctets(octets) THEN Failure("address")
    ELSE IF n < 0 \/ n > MaxPrefixLen THEN Failure("prefix")
    ELSE IF WAnd(IntFromOctets(octets), Netmask(n)) # IntFromOctets(octets)
         THEN Failure("host_bits")
    ELSE [ok |-> TRUE, net |-> Net(IntFromOctets(octets), n)]

\* IPv4Network keeping the host bits of the address given
IPv4NetworkKeepsHostBits(octets, n) ==
    IF ~ValidOctets(octets) THEN Failure("address")
    ELSE IF n < 0 \/ n > MaxPrefixLen THEN Failure("prefix")
    ELSE [ok |-> TRUE, net |-> Net(IntFromOctets(octets), n)]

\* IPv4Network("a.b.c.d/n", strict=False): the address and the prefix length
\* are validated and the host bits are cleared
IPv4NetworkNonStrict(octets, n) ==
    IF ~ValidOctets(octets) THEN Failure("address")
    ELSE IF n < 0 \/ n > MaxPrefixLen THEN Failure("prefix")
    ELSE [ok |-> TRUE, net |-> Net(WAnd(IntFromOctets(octets), Netmask(n)), n)]

(***************************************************************************)
(* SubnetCalculator.validate_ip_network                                    *)
(***************************************************************************)
\* the octets or-ed together without the shift
MaskInt_NoShift(mask) ==
    WOr(WOr(WOr(W(mask[1]), W(mask[2])), W(mask[3])), W(mask[4]))

\* mask_int = (mask_int << 8) | int(octet), over the four octets of the mask
MaskInt(mask) ==
    LET step(acc, o) == WOr(WShl8(acc), W(o))
    IN  step(step(step(step(W(0), mask[1]), mask[2]), mask[3]), mask[4])

\* the number of leading one-bits of an octet and of a mask of four octets
OctetLeadingOnes(o) ==
    CHOOSE k \in 0..8 :
        /\ o \div 2^(8 - k) = 2^k - 1
        /\ \A j \in (k + 1)..8 : o \div 2^(8 - j) # 2^j - 1

RECURSIVE LeadingOnes(_)
LeadingOnes(mask) ==
    IF mask = <<>> THEN 0
    ELSE IF Head(mask) = 255 THEN 8 + LeadingOnes(Tail(mask))
    ELSE OctetLeadingOnes(Head(mask))

\* the prefix length taken as the leading one-bits of the mask
MaskPrefixLen_Leading(mask) == LeadingOnes(mask)

\* prefix_len = bin(mask_int).count('1')
MaskPrefixLen(mask) == WPopCount(MaskInt(mask))

\* text is one of
\*   [form |-> "cidr", addr |-> octets, plen |-> n]      "a.b.c.d/n"
\*   [form |-> "mask", addr |-> octets, mask |-> octets] "a.b.c.d e.f.g.h"
\*   [form |-> "bare", addr |-> octets]                  "a.b.c.d"
\*   [form |-> "junk"]                                   anything else
validate_ip_network(text) ==
    IF text.form = "cidr" THEN IPv4NetworkNonStrict(text.addr, text.plen)
    ELSE IF text.form = "mask"
         THEN IPv4NetworkNonStrict(text.addr, MaskPrefixLen(text.mask))
    ELSE IF text.form = "bare" THEN IPv4NetworkNonStrict(text.addr, MaxPrefixLen)
    ELSE Failure("format")

(***************************************************************************)
(* SubnetCalculator._get_ip_class                                          *)
(***************************************************************************)
\* the thresholds taken as inclusive
get_ip_class_Inclusive(addr) ==
    LET first_octet == Packed(addr)[1]
    IN  IF first_octet <= 128 THEN "A"
        ELSE IF first_octet <= 192 THEN "B"
        ELSE IF first_octet <= 224 THEN "C"
        ELSE IF first_octet <= 240 THEN "D (Multicast)"
        ELSE "E (Reserved)"

get_ip_class(addr) ==
    LET first_octet == Packed(addr)[1]
    IN  IF first_octet < 128 THEN "A"
        ELSE IF first_octet < 192 THEN "B"
        ELSE IF first_octet < 224 THEN "C"
        ELSE IF first_octet < 240 THEN "D (Multicast)"
        ELSE "E (Reserved)"

(***************************************************************************)
(* SubnetCalculator.get_network_info                                       *)
(***************************************************************************)
\* the first host taken as the address after the network address for every
\* network of more than one address
FirstHost_AfterBase(net) ==
    IF net.prefix >= MaxPrefixLen THEN net.base ELSE WAdd(net.base, W(1))

\* network.hosts(): range(network + 1, broadcast) in general, every address
\* of a /31, and the single address of a /32
FirstHost(net) ==
    IF net.prefix >= MaxPrefixLen - 1 THEN net.base ELSE WAdd(net.base, W(1))

LastHost(net) ==
    IF net.prefix >= MaxPrefixLen - 1 THEN Broadcast(net)
    ELSE WSub(Broadcast(net), W(1))

\* the wildcard taken as 256 - octet
WildcardMask_From256(net) ==
    [i \in 1..4 |-> 256 - Packed(Netmask(net.prefix))[i]]

\* wildcard_mask: 255 - octet for each octet of netmask.packed
WildcardMask(net) ==
    [i \in 1..4 |-> 255 - Packed(Netmask(net.prefix))[i]]

\* the host count with 2 taken off up to prefix length 31
NumberOfHosts_Below32(net) ==
    IF net.prefix < 32 THEN WSub(NumAddresses(net), W(2)) ELSE NumAddresses(net)

\* network.num_addresses - 2 if network.prefixlen < 31 else
\* network.num_addresses
NumberOfHosts(net) ==
    IF net.prefix < 31 THEN WSub(NumAddresses(net), W(2)) ELSE NumAddresses(net)

NetworkInfo(net) ==
    [ok |-> TRUE,
     NetworkAddress   |-> Packed(net.base),
     BroadcastAddress |-> Packed(Broadcast(net)),
     SubnetMask       |-> Packed(Netmask(net.prefix)),
     WildcardMask     |-> WildcardMask(net),
     PrefixLength     |-> net.prefix,
     NetworkClass     |-> get_ip_class(net.base),
     NumberOfHosts    |-> NumberOfHosts(net),
     RangeFirst       |-> IF WLt(W(1), NumAddresses(net))
                          THEN Packed(FirstHost(net)) ELSE Packed(net.base),
     RangeLast        |-> IF WLt(W(1), NumAddresses(net))
                          THEN Packed(LastHost(net)) ELSE Packed(Broadcast(net)),
     CIDR             |-> net]

get_network_info(text) ==
    LET v == validate_ip_network(text)
    IN  IF v.ok THEN NetworkInfo(v.net) ELSE v

(***************************************************************************)
(* SubnetCalculator.subnet_network                                         *)
(***************************************************************************)
RECURSIVE WShr(_, _)
\* a >> k
WShr(a, k) ==
    IF k = 0 THEN a
    ELSE WShr(<<a[1] \div 2, (a[1] % 2) * (Limb \div 2) + (a[2] \div 2)>>, k - 1)

RECURSIVE Range(_, _, _)
\* range(start, end, step) for step > 0
Range(start, end, step) ==
    IF WLt(start, end) THEN <<start>> \o Range(WAdd(start, step), end, step)
    ELSE <<>>

\* subnets() starting one address after the network address
Subnets_StartAfterBase(net, new_prefix) ==
    IF net.prefix = MaxPrefixLen THEN [ok |-> TRUE, subnets |-> <<net>>]
    ELSE IF new_prefix < net.prefix THEN Failure("creating")
    ELSE IF new_prefix > MaxPrefixLen THEN Failure("creating")
    ELSE LET prefixlen_diff == new_prefix - net.prefix
             step  == WShr(WAdd(Hostmask(net.prefix), W(1)), prefixlen_diff)
             addrs == Range(WAdd(net.base, W(1)), WAdd(Broadcast(net), W(1)), step)
         IN  [ok |-> TRUE,
              subnets |-> [i \in 1..Len(addrs) |-> Net(addrs[i], new_prefix)]]

\* subnets() stepping up to the broadcast address, not past it
Subnets_OpenEnd(net, new_prefix) ==
    IF net.prefix = MaxPrefixLen THEN [ok |-> TRUE, subnets |-> <<net>>]
    ELSE IF new_prefix < net.prefix THEN Failure("creating")
    ELSE IF new_prefix > MaxPrefixLen THEN Failure("creating")
    ELSE LET prefixlen_diff == new_prefix - net.prefix
             step  == WShr(WAdd(Hostmask(net.prefix), W(1)), prefixlen_diff)
             addrs == Range(net.base, Broadcast(net), step)
         IN  [ok |-> TRUE,
              subnets |-> [i \in 1..Len(addrs) |-> Net(addrs[i], new_prefix)]]

\* network.subnets(new_prefix=new_prefix)
Subnets(net, new_prefix) ==
    IF net.prefix = MaxPrefixLen THEN [ok |-> TRUE, subnets |-> <<net>>]
    ELSE IF new_prefix < net.prefix THEN Failure("creating")
    ELSE IF new_prefix > MaxPrefixLen THEN Failure("creating")
    ELSE LET prefixlen_diff == new_prefix - net.prefix
             start == net.base
             end   == WAdd(Broadcast(net), W(1))
             step  == WShr(WAdd(Hostmask(net.prefix), W(1)), prefixlen_diff)
             addrs == Range(start, end, step)
         IN  [ok |-> TRUE,
              subnets |-> [i \in 1..Len(addrs) |-> Net(addrs[i], new_prefix)]]

RECURSIVE BitsNeeded_Extra(_)
\* the loop run while temp > 0: one bit too many
BitsNeeded_Extra(temp) == IF temp > 0 THEN 1 + BitsNeeded_Extra(temp \div 2) ELSE 0

RECURSIVE BitsNeeded(_)
\* while temp > 1: temp //= 2; bits_needed += 1
BitsNeeded(temp) == IF temp > 1 THEN 1 + BitsNeeded(temp \div 2) ELSE 0

\* the test taken as true of every odd count as well
IsPowerOfTwo_OrOdd(num_subnets) ==
    BitAnd(num_subnets, num_subnets - 1) = 0 \/ num_subnets % 2 = 1

\* num_subnets & (num_subnets - 1) == 0, for num_subnets > 0
IsPowerOfTwo(num_subnets) == BitAnd(num_subnets, num_subnets - 1) = 0

\* the maximum reported as one less
MaxSubnets_LessOne(net) == WSub(WPow2(32 - net.prefix), W(1))

\* "Maximum possible subnets": 2**(32 - network.prefixlen)
MaxSubnets(net) == WPow2(32 - net.prefix)

\* the new prefix length with a given prefix length equal to the network's
\* let through
NewPrefix_AllowsEqual(net, num_subnets, new_prefix_length) ==
    IF num_subnets <= 0 /\ new_prefix_length <= 0 THEN Failure("neither")
    ELSE IF num_subnets > 0
    THEN IF ~IsPowerOfTwo(num_subnets)
         THEN Failure("not_power_of_2")
         ELSE LET new_prefix == net.prefix + BitsNeeded(num_subnets)
              IN  IF new_prefix > 32
                  THEN [ok |-> FALSE, err |-> "too_many", max |-> MaxSubnets(net)]
                  ELSE [ok |-> TRUE, new_prefix |-> new_prefix]
    ELSE LET new_prefix == new_prefix_length
         IN  IF new_prefix < net.prefix THEN Failure("not_larger")
             ELSE IF new_prefix > 32 THEN Failure("too_long")
             ELSE [ok |-> TRUE, new_prefix |-> new_prefix]

\* the new prefix length subnet_network asks subnets() for, or the failure
\* it raises before that
NewPrefix(net, num_subnets, new_prefix_length) ==
    IF num_subnets <= 0 /\ new_prefix_length <= 0 THEN Failure("neither")
    ELSE IF num_subnets > 0
    THEN IF ~IsPowerOfTwo(num_subnets)
         THEN Failure("not_power_of_2")
         ELSE LET new_prefix == net.prefix + BitsNeeded(num_subnets)
              IN  IF new_prefix > 32
                  THEN [ok |-> FALSE, err |-> "too_many", max |-> MaxSubnets(net)]
                  ELSE [ok |-> TRUE, new_prefix |-> new_prefix]
    ELSE LET new_prefix == new_prefix_length
         IN  IF new_prefix <= net.prefix THEN Failure("not_larger")
             ELSE IF new_prefix > 32 THEN Failure("too_long")
             ELSE [ok |-> TRUE, new_prefix |-> new_prefix]

\* subnet_network giving the list in the opposite order once the caller
\* holds an earlier one
subnet_network_OrderDrifts(text, num_subnets, new_prefix_length) ==
    LET v == validate_ip_network(text)
    IN  IF ~v.ok THEN v
        ELSE LET np == NewPrefix(v.net, num_subnets, new_prefix_length)
                 r  == Subnets(v.net, np.new_prefix)
             IN  IF ~np.ok THEN np
                 ELSE IF earlier = <<>> \/ ~r.ok THEN r
                 ELSE [r EXCEPT !.subnets =
                          [i \in 1..Len(r.subnets) |->
                              r.subnets[Len(r.subnets) + 1 - i]]]

subnet_network(text, num_subnets, new_prefix_length) ==
    LET v == validate_ip_network(text)
    IN  IF ~v.ok THEN v
        ELSE LET np == NewPrefix(v.net, num_subnets, new_prefix_length)
             IN  IF ~np.ok THEN np ELSE Subnets(v.net, np.new_prefix)

(***************************************************************************)
(* SubnetCalculator.find_subnet_for_hosts                                  *)
(***************************************************************************)
RECURSIVE HostBits_Le(_, _)
\* the loop run while (1 << host_bits) <= total_ips_needed
HostBits_Le(host_bits, total_ips_needed) ==
    IF WLe(WPow2(host_bits), total_ips_needed)
    THEN IF host_bits + 1 > 32 THEN -1
         ELSE HostBits_Le(host_bits + 1, total_ips_needed)
    ELSE host_bits

RECURSIVE HostBits_Upto33(_, _)
\* the loop giving up only above 33 host bits
HostBits_Upto33(host_bits, total_ips_needed) ==
    IF WLt(WPow2(host_bits), total_ips_needed)
    THEN IF host_bits + 1 > 33 THEN -1
         ELSE HostBits_Upto33(host_bits + 1, total_ips_needed)
    ELSE host_bits

RECURSIVE HostBits(_, _)
\* the while loop: host_bits on leaving it, or -1 when the loop raises
HostBits(host_bits, total_ips_needed) ==
    IF WLt(WPow2(host_bits), total_ips_needed)
    THEN IF host_bits + 1 > 32 THEN -1
         ELSE HostBits(host_bits + 1, total_ips_needed)
    ELSE host_bits

\* the host bits returned in place of the prefix length
find_subnet_for_hosts_Bits(num_hosts) ==
    IF WLe(num_hosts, W(0)) THEN Failure("not_positive")
    ELSE LET host_bits == HostBits(0, WAdd(num_hosts, W(2)))
         IN  IF host_bits = -1 THEN Failure("capacity")
             ELSE [ok |-> TRUE, prefix |-> host_bits]

find_subnet_for_hosts(num_hosts) ==
    IF WLe(num_hosts, W(0)) THEN Failure("not_positive")
    ELSE LET total_ips_needed == WAdd(num_hosts, W(2))
             host_bits == HostBits(0, total_ips_needed)
         IN  IF host_bits = -1 THEN Failure("capacity")
             ELSE LET prefix_length == 32 - host_bits
                  IN  IF prefix_length < 0 THEN Failure("cannot_accommodate")
                      ELSE [ok |-> TRUE, prefix |-> prefix_length]

(***************************************************************************)
(* ipaddress.collapse_addresses                                            *)
(***************************************************************************)
\* number & its trailing-zero mask, as _count_righthand_zero_bits(number, bits)
CountRighthandZeroBits(number, bits) ==
    IF number = W(0) THEN bits
    ELSE Min(bits, IF number[2] # 0 THEN TrailingZeros(number[2])
                   ELSE 16 + TrailingZeros(number[1]))

RECURSIVE SummarizeAddressRange(_, _)
\* summarize_address_range(first, last): the networks covering first..last
SummarizeAddressRange(first_int, last_int) ==
    IF ~WLe(first_int, last_int) THEN <<>>
    ELSE LET nbits == Min(CountRighthandZeroBits(first_int, MaxPrefixLen),
                          WBitLength(WAdd(WSub(last_int, first_int), W(1))) - 1)
             net  == Net(first_int, MaxPrefixLen - nbits)
             next == WAdd(first_int, WPow2(nbits))
         IN  IF WSub(next, W(1)) = AllOnes THEN <<net>>
             ELSE <<net>> \o SummarizeAddressRange(next, last_int)

RECURSIVE SortedAddrs(_)
\* sorted(set(ips))
SortedAddrs(S) ==
    IF S = {} THEN <<>>
    ELSE LET m == CHOOSE x \in S : \A y \in S \ {x} : WLt(x, y)
         IN  <<m>> \o SortedAddrs(S \ {m})

RECURSIVE FindAddressRange(_, _, _)
\* _find_address_range over the rest of the sorted addresses, with the run
\* first..last open
FindAddressRange(ips, first, last) ==
    IF ips = <<>> THEN <<<<first, last>>>>
    ELSE IF Head(ips) # WAdd(last, W(1))
         THEN <<<<first, last>>>> \o FindAddressRange(Tail(ips), Head(ips), Head(ips))
         ELSE FindAddressRange(Tail(ips), first, Head(ips))

RECURSIVE SummarizeRanges(_)
\* addrs.extend(summarize_address_range(first, last)) for each range
SummarizeRanges(ranges) ==
    IF ranges = <<>> THEN <<>>
    ELSE SummarizeAddressRange(Head(ranges)[1], Head(ranges)[2])
         \o SummarizeRanges(Tail(ranges))

\* the supernet taken two bits shorter
Supernet_TwoBits(net) ==
    IF net.prefix < 2 THEN Net(W(0), 0)
    ELSE Net(WAnd(net.base, Netmask(net.prefix - 2)), net.prefix - 2)

\* the supernet taken without clearing the bit that leaves the prefix
Supernet_KeepBase(net) ==
    IF net.prefix = 0 THEN net ELSE Net(net.base, net.prefix - 1)

\* network.supernet()
Supernet(net) ==
    IF net.prefix = 0 THEN net
    ELSE LET mask == Netmask(net.prefix)
         IN  Net(WAnd(net.base, WAdd(mask, mask)), net.prefix - 1)

\* _BaseNetwork.__lt__: by network address, then by netmask
NetLt(a, b) ==
    IF a.base # b.base THEN WLt(a.base, b.base)
    ELSE WLt(Netmask(a.prefix), Netmask(b.prefix))

RECURSIVE SortedNets(_)
\* sorted(subnets.values())
SortedNets(S) ==
    IF S = {} THEN <<>>
    ELSE LET m == CHOOSE x \in S : \A y \in S \ {x} : NetLt(x, y)
         IN  <<m>> \o SortedNets(S \ {m})

RECURSIVE MergeSubnets(_, _)
\* the first loop of _collapse_addresses_internal: to_merge is the list,
\* subnets the dict from supernet to net
MergeSubnets(to_merge, subnets) ==
    IF to_merge = <<>> THEN subnets
    ELSE LET net      == to_merge[Len(to_merge)]
             rest     == SubSeq(to_merge, 1, Len(to_merge) - 1)
             supernet == Supernet(net)
         IN  IF supernet \notin DOMAIN subnets
             THEN MergeSubnets(rest, subnets @@ (supernet :> net))
             ELSE IF subnets[supernet] # net
             THEN MergeSubnets(Append(rest, supernet),
                               [k \in DOMAIN subnets \ {supernet} |-> subnets[k]])
             ELSE MergeSubnets(rest, subnets)

\* the second loop yielding every net
SkipSubsumed_None(nets, last) == nets

RECURSIVE SkipSubsumed(_, _)
\* the second loop: yield each net not inside the last one yielded
SkipSubsumed(nets, last) ==
    IF nets = <<>> THEN <<>>
    ELSE LET net == Head(nets)
         IN  IF last # <<>> /\ WLe(Broadcast(net), Broadcast(last[1]))
             THEN SkipSubsumed(Tail(nets), last)
             ELSE <<net>> \o SkipSubsumed(Tail(nets), <<net>>)

CollapseAddressesInternal(addresses) ==
    LET subnets == MergeSubnets(addresses, <<>>)
    IN  SkipSubsumed(SortedNets({subnets[k] : k \in DOMAIN subnets}), <<>>)

\* collapse_addresses(addresses): the /32 networks go through the address
\* ranges, the others are merged as they are
collapse_addresses(addresses) ==
    LET idx   == 1..Len(addresses)
        ips   == SortedAddrs({addresses[i].base :
                                i \in {j \in idx : addresses[j].prefix = MaxPrefixLen}})
        nets  == SelectSeq(addresses, LAMBDA n : n.prefix # MaxPrefixLen)
        addrs == IF ips = <<>> THEN <<>>
                 ELSE SummarizeRanges(FindAddressRange(Tail(ips), Head(ips), Head(ips)))
    IN  CollapseAddressesInternal(addrs \o nets)

(***************************************************************************)
(* SubnetCalculator.get_supernet                                           *)
(***************************************************************************)
\* get_supernet without the check for an empty list
get_supernet_NoEmptyCheck(networks) ==
    LET parsed == [i \in 1..Len(networks) |-> validate_ip_network(networks[i])]
    IN  IF \E i \in 1..Len(networks) : ~parsed[i].ok
        THEN parsed[CHOOSE i \in 1..Len(networks) :
                       ~parsed[i].ok /\ \A j \in 1..(i - 1) : parsed[j].ok]
        ELSE LET network_objects == [i \in 1..Len(networks) |-> parsed[i].net]
                 supernet == collapse_addresses(network_objects)
             IN  [ok |-> TRUE,
                  value |-> IF supernet = <<>> THEN <<>> ELSE <<supernet[1]>>]

\* get_supernet returning None when the networks collapse to more than one
get_supernet_NoneWhenSeveral(networks) ==
    IF networks = <<>> THEN Failure("empty")
    ELSE LET parsed == [i \in 1..Len(networks) |-> validate_ip_network(networks[i])]
         IN  IF \E i \in 1..Len(networks) : ~parsed[i].ok
             THEN parsed[CHOOSE i \in 1..Len(networks) :
                            ~parsed[i].ok /\ \A j \in 1..(i - 1) : parsed[j].ok]
             ELSE LET network_objects == [i \in 1..Len(networks) |-> parsed[i].net]
                      supernet == collapse_addresses(network_objects)
                  IN  [ok |-> TRUE,
                       value |-> IF Len(supernet) # 1 THEN <<>> ELSE <<supernet[1]>>]

\* the result is None or one network: a sequence of at most one network
get_supernet(networks) ==
    IF networks = <<>> THEN Failure("empty")
    ELSE LET parsed == [i \in 1..Len(networks) |-> validate_ip_network(networks[i])]
         IN  IF \E i \in 1..Len(networks) : ~parsed[i].ok
             THEN parsed[CHOOSE i \in 1..Len(networks) :
                            ~parsed[i].ok /\ \A j \in 1..(i - 1) : parsed[j].ok]
             ELSE LET network_objects == [i \in 1..Len(networks) |-> parsed[i].net]
                      supernet == collapse_addresses(network_objects)
                  IN  [ok |-> TRUE,
                       value |-> IF supernet = <<>> THEN <<>> ELSE <<supernet[1]>>]

\* the texts given to the calculator
Cidr(a, n) == [form |-> "cidr", addr |-> a, plen |-> n]

\* str(network): a network written as "a.b.c.d/n"
CidrOf(net) == Cidr(Packed(net.base), net.prefix)

(***************************************************************************)
(* main: the command line, in its modes info, subnet, hosts and supernet   *)
(* (the interactive mode reads its requests from the terminal and makes    *)
(* the same calls)                                                         *)
(***************************************************************************)
\* an option of the command line: None when it is not given
NoOption == [given |-> FALSE]

Option(v) == [given |-> TRUE, value |-> v]

\* how a run ends: output printed and status 0; "Error: ..." printed and
\* status 1 (the ValueError caught in main); or an exception no handler
\* catches, which ends the run with a traceback
Printed(what) == [status |-> 0, uncaught |-> FALSE, out |-> what]

ErrorPrinted(e) == [status |-> 1, uncaught |-> FALSE, out |-> "Error", err |-> e]

Uncaught(e) == [status |-> 1, uncaught |-> TRUE, out |-> "Traceback", err |-> e]

Ended(r, what) ==
    IF r.ok THEN Printed(what)
    ELSE IF r.err = "TypeError" THEN Uncaught(r.err)
    ELSE ErrorPrinted(r.err)

\* subnet_network(network, new_prefix_length=None): num_subnets is 0, and
\* new_prefix_length <= 0 raises TypeError once the network is validated
subnet_network_NoneLength(text) ==
    LET v == validate_ip_network(text)
    IN  IF ~v.ok THEN v ELSE Failure("TypeError")

\* the subnet mode: "if args.num_subnets:" is false of None and of 0
main_subnet(a) ==
    IF a.num_subnets.given /\ a.num_subnets.value # 0
    THEN Ended(subnet_network(a.network, a.num_subnets.value, 0), "subnets")
    ELSE IF a.prefix_length.given
    THEN Ended(subnet_network(a.network, 0, a.prefix_length.value), "subnets")
    ELSE Ended(subnet_network_NoneLength(a.network), "subnets")

main_info(a) == Ended(get_network_info(a.network), "info")

\* the hosts mode: the prefix length, then the base network's information
\* when -b is given: IPv4Network(f"{base_network}/{prefix_length}")
main_hosts(a) ==
    LET r == find_subnet_for_hosts(a.num_hosts)
    IN  IF ~r.ok THEN Ended(r, "hosts")
        ELSE IF ~a.base_network.given THEN Printed("hosts")
        ELSE LET b == a.base_network.value
                 network == IF b.form = "bare"
                            THEN IPv4NetworkNonStrict(b.addr, r.prefix)
                            ELSE Failure("format")
             IN  IF ~network.ok THEN Ended(network, "hosts")
                 ELSE Ended(get_network_info(CidrOf(network.net)), "hosts, info")

\* the supernet mode: "if supernet:" is true of every network
main_supernet(a) ==
    LET r == get_supernet(a.networks)
    IN  IF ~r.ok THEN Ended(r, "supernet")
        ELSE IF r.value # <<>>
        THEN Ended(get_network_info(CidrOf(r.value[1])), "supernet, info")
        ELSE Printed("No common supernet found")

main(a) ==
    IF a.mode = "info" THEN main_info(a)
    ELSE IF a.mode = "subnet" THEN main_subnet(a)
    ELSE IF a.mode = "hosts" THEN main_hosts(a)
    ELSE main_supernet(a)

(***************************************************************************)
(* The calls made to the calculator                                        *)
(***************************************************************************)
\* largest number of address bits a modelled subnet_network call may split
\* off (the result has up to 2^MaxSplitBits networks)
MaxSplitBits == 4

\* small host counts given to find_subnet_for_hosts run from -2 to MaxHosts
MaxHosts == 600

\* longest list of networks given to get_supernet
MaxNets == 3

\* the lists of sibling networks given to get_supernet have up to
\* 2^MaxTileBits networks
MaxTileBits == 3

Mask(a, m) == [form |-> "mask", addr |-> a, mask |-> m]

Bare(a) == [form |-> "bare", addr |-> a]

Junk == [form |-> "junk"]

\* dotted-decimal addresses as written by the caller; two of them have an
\* octet above 255
Addrs ==
    { <<192, 168, 1, 0>>, <<192, 168, 1, 5>>, <<192, 168, 2, 0>>,
      <<10, 10, 0, 0>>, <<10, 1, 0, 0>>, <<172, 16, 16, 0>>,
      <<0, 0, 0, 0>>, <<255, 255, 255, 255>>, <<170, 170, 170, 170>>,
      <<85, 85, 85, 85>>, <<224, 0, 0, 1>>, <<240, 0, 0, 1>>,
      <<128, 0, 0, 0>>, <<127, 255, 255, 255>>,
      <<192, 168, 1, 256>>, <<300, 1, 1, 1>> }

\* prefix lengths as written by the caller ("\d+" admits no sign)
PrefixLens == 0..(MaxPrefixLen + 1)

\* dotted-decimal masks as written by the caller: every contiguous mask,
\* and masks that are not contiguous or have an octet above 255
Masks ==
    { Packed(Netmask(n)) : n \in 0..MaxPrefixLen }
    \cup { <<255, 0, 255, 0>>, <<0, 0, 0, 255>>, <<255, 255, 0, 255>>,
           <<256, 0, 0, 0>>, <<255, 255, 255, 256>>, <<999, 999, 999, 999>> }

Texts ==
    { Cidr(a, n) : a \in Addrs, n \in PrefixLens }
    \cup { Mask(a, m) : a \in Addrs, m \in Masks }
    \cup { Bare(a) : a \in Addrs }
    \cup { Junk }

\* networks given to subnet_network
SubnetTexts ==
    { Cidr(a, n) : a \in { <<192, 168, 1, 0>>, <<10, 1, 0, 0>>,
                           <<170, 170, 170, 170>>, <<255, 255, 255, 255>> },
                   n \in 0..MaxPrefixLen }
    \cup { Mask(<<192, 168, 1, 77>>, <<255, 255, 255, 0>>),
           Cidr(<<192, 168, 1, 256>>, 24), Junk }

\* (num_subnets, new_prefix_length) pairs: by count, by prefix, and both
SplitRequests ==
    { <<n, 0>> : n \in -1..(2^MaxSplitBits + 1) }
    \cup { <<0, p>> : p \in -1..(MaxPrefixLen + 2) }
    \cup { <<n, p>> : n \in {2, 3}, p \in {-1, 26, 33} }

\* the request stays within MaxSplitBits
SplitInBounds(text, req) ==
    LET v == validate_ip_network(text)
    IN  IF ~v.ok \/ req[1] > 0 THEN TRUE
        ELSE req[2] - v.net.prefix <= MaxSplitBits

\* host counts: the small ones, and those around each power of two
HostCounts ==
    { W(h) : h \in -2..MaxHosts }
    \cup { WAdd(WPow2(k), W(d)) : k \in 0..(MaxPrefixLen + 2), d \in -3..2 }

\* networks given to get_supernet
SupernetTexts ==
    { Cidr(<<192, 168, 0, 0>>, 23), Cidr(<<192, 168, 2, 0>>, 23),
      Cidr(<<192, 168, 0, 0>>, 24), Cidr(<<192, 168, 1, 0>>, 24),
      Cidr(<<192, 168, 2, 0>>, 24), Cidr(<<192, 168, 3, 0>>, 24),
      Cidr(<<192, 168, 1, 0>>, 32), Cidr(<<192, 168, 1, 1>>, 32),
      Cidr(<<0, 0, 0, 0>>, 0), Cidr(<<192, 168, 1, 256>>, 24),
      Mask(<<192, 168, 0, 0>>, <<255, 255, 252, 0>>) }

\* networks whose equal-size parts are given to get_supernet
TilingBlocks ==
    { Net(IntFromOctets(<<10, 10, 0, 0>>), 21),
      Net(IntFromOctets(<<172, 16, 16, 0>>), 22),
      Net(IntFromOctets(<<192, 168, 1, 0>>), 29),
      Net(IntFromOctets(<<192, 168, 1, 0>>), 30),
      Net(IntFromOctets(<<255, 255, 255, 254>>), 31),
      Net(IntFromOctets(<<0, 0, 0, 0>>), 0) }

\* the 2^k parts of a network, written in ascending and in descending order
TilingsOf(b) ==
    UNION { LET n     == 2^k
                size  == WPow2(MaxPrefixLen - (b.prefix + k))
                parts == [i \in 1..n |->
                            Net(WAdd(b.base, WNorm((i - 1) * size[1], (i - 1) * size[2])),
                                b.prefix + k)]
            IN  { [i \in 1..n |-> CidrOf(parts[i])],
                  [i \in 1..n |-> CidrOf(parts[n + 1 - i])] } :
            k \in { j \in 0..MaxTileBits : b.prefix + j <= MaxPrefixLen } }

Tilings == UNION { TilingsOf(b) : b \in TilingBlocks }

\* two networks with a gap between them, in both orders
GapLists ==
    { << Cidr(<<10, 0, 0, 0>>, 24), Cidr(<<10, 0, 2, 0>>, 24) >>,
      << Cidr(<<10, 0, 2, 0>>, 24), Cidr(<<10, 0, 0, 0>>, 24) >> }

NetworkLists ==
    UNION { [1..k -> SupernetTexts] : k \in 0..MaxNets } \cup Tilings \cup GapLists

(***************************************************************************)
(* State: the call in progress (op is "none" between calls), its arguments *)
(* and what it returned.  The methods are static and keep nothing between  *)
(* calls, so a call starts from the idle state and the caller's taking the *)
(* result leads back to it.  earlier is the caller's: a subnet_network     *)
(* call and its result that the caller has kept to compare a later call    *)
(* with (<<>> when none is kept); the calculator never reads it.           *)
(***************************************************************************)
\* once a call is kept, the calls that follow are drawn from these inputs
ReplayTexts ==
    { Cidr(<<192, 168, 1, 0>>, 24), Cidr(<<192, 168, 1, 5>>, 31),
      Mask(<<10, 1, 0, 0>>, <<255, 0, 255, 0>>), Cidr(<<192, 168, 1, 256>>, 24),
      Junk }

ReplaySubnetTexts ==
    { Cidr(<<192, 168, 1, 0>>, 24), Cidr(<<10, 1, 0, 0>>, 16),
      Cidr(<<192, 168, 1, 0>>, 30), Cidr(<<192, 168, 1, 256>>, 24) }

ReplaySplitRequests == { <<4, 0>>, <<3, 0>>, <<8, 0>>, <<0, 26>>, <<0, 16>>, <<0, 0>> }

ReplayHostCounts == { W(0), W(1), W(100), WSub(WPow2(32), W(1)) }

ReplayNetworkLists ==
    { <<>>,
      << Cidr(<<192, 168, 0, 0>>, 24), Cidr(<<192, 168, 1, 0>>, 24) >>,
      << Cidr(<<192, 168, 1, 0>>, 24), Cidr(<<192, 168, 3, 0>>, 24) >>,
      << Cidr(<<192, 168, 1, 256>>, 24) >> }

\* the command lines given to main, as parse_arguments returns them: in
\* the subnet mode one of -n and -p, with any integer; in the supernet mode
\* one network or more; in the hosts mode -b or not
CliSubnetRequests ==
    { [mode |-> "subnet", network |-> text, num_subnets |-> Option(n),
       prefix_length |-> NoOption] :
          text \in ReplaySubnetTexts \cup { Junk },
          n \in -1..(2^MaxSplitBits + 1) }
    \cup { r \in { [mode |-> "subnet", network |-> text,
                    num_subnets |-> NoOption, prefix_length |-> Option(p)] :
                      text \in ReplaySubnetTexts \cup { Junk },
                      p \in -1..(MaxPrefixLen + 2) } :
              SplitInBounds(r.network, <<0, r.prefix_length.value>>) }

CliInfoRequests == { [mode |-> "info", network |-> text] : text \in ReplayTexts }

CliHostsRequests ==
    { [mode |-> "hosts", num_hosts |-> h, base_network |-> b] :
          h \in ReplayHostCounts \cup { W(5) },
          b \in { NoOption, Option(Bare(<<10, 0, 0, 0>>)),
                  Option(Bare(<<192, 168, 1, 256>>)),
                  Option(Cidr(<<10, 0, 0, 0>>, 8)), Option(Junk) } }

CliSupernetRequests ==
    { [mode |-> "supernet", networks |-> l] :
          l \in { n \in NetworkLists : Len(n) \in 1..2 } }

CliRequests ==
    CliInfoRequests \cup CliSubnetRequests \cup CliHostsRequests
    \cup CliSupernetRequests

ReplayCliRequests ==
    { [mode |-> "subnet", network |-> Cidr(<<192, 168, 1, 0>>, 24),
       num_subnets |-> Option(0), prefix_length |-> NoOption],
      [mode |-> "supernet",
       networks |-> << Cidr(<<192, 168, 1, 0>>, 24),
                       Cidr(<<192, 168, 3, 0>>, 24) >>] }

\* the input is one the model follows: any before a call is kept
Followed(input, replay) == earlier = <<>> \/ input \in replay

Init ==
    /\ op = "none"
    /\ args = <<>>
    /\ ret = <<>>
    /\ earlier = <<>>

ValidateIpNetwork ==
    /\ op = "none"
    /\ \E text \in Texts :
          /\ Followed(text, ReplayTexts)
          /\ op' = "validate_ip_network"
          /\ args' = [network_str |-> text]
          /\ ret' = validate_ip_network(text)
    /\ UNCHANGED earlier

GetNetworkInfo ==
    /\ op = "none"
    /\ \E text \in Texts :
          /\ Followed(text, ReplayTexts)
          /\ op' = "get_network_info"
          /\ args' = [network_str |-> text]
          /\ ret' = get_network_info(text)
    /\ UNCHANGED earlier

SubnetNetwork ==
    /\ op = "none"
    /\ \E text \in SubnetTexts, req \in SplitRequests :
          /\ SplitInBounds(text, req)
          /\ Followed(<<text, req>>, ReplaySubnetTexts \X ReplaySplitRequests)
          /\ op' = "subnet_network"
          /\ args' = [network_str |-> text, num_subnets |-> req[1],
                      new_prefix_length |-> req[2]]
          /\ ret' = subnet_network(text, req[1], req[2])
    /\ UNCHANGED earlier

FindSubnetForHosts ==
    /\ op = "none"
    /\ \E num_hosts \in HostCounts :
          /\ Followed(num_hosts, ReplayHostCounts)
          /\ op' = "find_subnet_for_hosts"
          /\ args' = [num_hosts |-> num_hosts]
          /\ ret' = find_subnet_for_hosts(num_hosts)
    /\ UNCHANGED earlier

GetSupernet ==
    /\ op = "none"
    /\ \E networks \in NetworkLists :
          /\ Followed(networks, ReplayNetworkLists)
          /\ op' = "get_supernet"
          /\ args' = [networks |-> networks]
          /\ ret' = get_supernet(networks)
    /\ UNCHANGED earlier

\* one run of the program
Main ==
    /\ op = "none"
    /\ \E argv \in CliRequests :
          /\ Followed(argv, ReplayCliRequests)
          /\ op' = "main"
          /\ args' = argv
          /\ ret' = main(argv)
    /\ UNCHANGED earlier

\* the caller has taken the result
Return ==
    /\ op # "none"
    /\ op' = "none"
    /\ args' = <<>>
    /\ ret' = <<>>
    /\ UNCHANGED earlier

Next ==
    \/ ValidateIpNetwork
    \/ GetNetworkInfo
    \/ SubnetNetwork
    \/ FindSubnetForHosts
    \/ GetSupernet
    \/ Main
    \/ Return

Spec == Init /\ [][Next]_vars

\* the caller keeps a subnet_network call and what it returned, the list
\* or the error, to compare a later call with
Keep ==
    /\ op = "subnet_network"
    /\ earlier = <<>>
    /\ <<args.network_str, <<args.num_subnets, args.new_prefix_length>>>>
          \in ReplaySubnetTexts \X ReplaySplitRequests
    /\ earlier' = [args |-> args, ret |-> ret]
    /\ op' = "none"
    /\ args' = <<>>
    /\ ret' = <<>>

NextReplay == Next \/ Keep

\* the calls with a caller that keeps one subnet_network result
SpecReplay == Init /\ [][NextReplay]_vars

(***************************************************************************)
(* Vocabulary of the properties                                            *)
(***************************************************************************)
\* k * a for a small non-negative k
WTimes(k, a) == WNorm(k * a[1], k * a[2])

\* a with its low k bits cleared, 0 <= k <= 32, by arithmetic
ClearLow(a, k) ==
    IF k >= 16 THEN <<a[1] - (a[1] % (2^(k - 16))), 0>>
    ELSE <<a[1], a[2] - (a[2] % (2^k))>>

\* the interval [base, broadcast] of a block, from its base and prefix length
BlockLo(b) == b.base

BlockHi(b) == WSub(WAdd(b.base, WPow2(32 - b.prefix)), W(1))

\* outer contains inner: inner's base lies in outer's interval and inner's
\* prefix length is at least outer's
Contains(outer, inner) ==
    /\ WLe(BlockLo(outer), inner.base)
    /\ WLe(inner.base, BlockHi(outer))
    /\ inner.prefix >= outer.prefix

Overlap(a, b) == WLe(BlockLo(a), BlockHi(b)) /\ WLe(BlockLo(b), BlockHi(a))

Adjacent(a, b) ==
    \/ WAdd(BlockHi(a), W(1)) = BlockLo(b)
    \/ WAdd(BlockHi(b), W(1)) = BlockLo(a)

\* a.supernet_of(b)
SupernetOf(a, b) == WLe(BlockLo(a), BlockLo(b)) /\ WLe(BlockHi(b), BlockHi(a))

Dotted(a, b, c, d) == IntFromOctets(<<a, b, c, d>>)

\* the blocks a successful get_supernet call was given
InputBlocks ==
    [i \in 1..Len(args.networks) |-> validate_ip_network(args.networks[i]).net]

\* the block a subnet_network call was given, and the prefix length the
\* request asks for: q + log2(n) by count, p by prefix
PartitionBlock == validate_ip_network(args.network_str).net

PartitionTarget ==
    IF args.num_subnets > 0
    THEN PartitionBlock.prefix + (CHOOSE k \in 0..31 : 2^k = args.num_subnets)
    ELSE args.new_prefix_length

Collapsed == op = "get_supernet" /\ ret.ok

Partitioned == op = "subnet_network" /\ ret.ok

(***************************************************************************)
(* Properties                                                              *)
(***************************************************************************)
\* C1: collapse correctness.  For every non-empty list of valid blocks given
\* to get_supernet, every input block is contained in some block of the
\* returned output, and no two output blocks overlap.
C1_CollapseCorrectness ==
    Collapsed =>
        /\ \A i \in 1..Len(InputBlocks) :
              \E j \in 1..Len(ret.value) : Contains(ret.value[j], InputBlocks[i])
        /\ \A j, k \in 1..Len(ret.value) :
              j # k => ~Overlap(ret.value[j], ret.value[k])

\* C2: for every non-empty list of valid networks, get_supernet returns one
\* network, it is a supernet of each network given, and no network with a
\* longer prefix is a supernet of them all.
C2_SmallestSupernet ==
    Collapsed =>
        /\ Len(ret.value) = 1
        /\ \A i \in 1..Len(InputBlocks) : SupernetOf(ret.value[1], InputBlocks[i])
        /\ \A n \in (ret.value[1].prefix + 1)..32 :
              LET smaller == Net(ClearLow(InputBlocks[1].base, 32 - n), n)
              IN  \E i \in 1..Len(InputBlocks) : ~SupernetOf(smaller, InputBlocks[i])

\* C3: when the blocks given are pairwise neither overlapping nor adjacent,
\* all of them are returned unmerged, in ascending order of base: the output
\* has as many blocks as the input.
C3_DisjointReturnedUnmerged ==
    (/\ Collapsed
     /\ \A i, j \in 1..Len(InputBlocks) :
           i # j => /\ ~Overlap(InputBlocks[i], InputBlocks[j])
                    /\ ~Adjacent(InputBlocks[i], InputBlocks[j]))
    => /\ Len(ret.value) = Len(InputBlocks)
       /\ \A i \in 1..Len(InputBlocks) :
             \E j \in 1..Len(ret.value) : ret.value[j] = InputBlocks[i]
       /\ \A j \in 1..(Len(ret.value) - 1) :
             WLt(ret.value[j].base, ret.value[j + 1].base)

\* C4: partition coverage.  For every successful partition of a block of
\* prefix length q into prefix length p, the sub-blocks' intervals are
\* pairwise disjoint, their union is exactly the block's interval (each lies
\* inside it, one starts at its base, and each ends at its broadcast or is
\* followed by one starting right after it), and there are 2^(p - q) of them.
C4_PartitionCoverage ==
    Partitioned =>
        LET blk  == PartitionBlock
            subs == ret.subnets
            idx  == 1..Len(subs)
        IN  /\ Len(subs) = 2^(PartitionTarget - blk.prefix)
            /\ \A i, j \in idx : i # j => ~Overlap(subs[i], subs[j])
            /\ \A i \in idx : /\ WLe(BlockLo(blk), BlockLo(subs[i]))
                              /\ WLe(BlockHi(subs[i]), BlockHi(blk))
            /\ \E i \in idx : BlockLo(subs[i]) = BlockLo(blk)
            /\ \A i \in idx :
                  \/ BlockHi(subs[i]) = BlockHi(blk)
                  \/ \E j \in idx : BlockLo(subs[j]) = WAdd(BlockHi(subs[i]), W(1))

C4_Witness ==
    /\ Partitioned
    /\ args.network_str = Cidr(<<10, 1, 0, 0>>, 16)
    /\ args.num_subnets = 16
    /\ Len(ret.subnets) = 16

\* C5: for every successful partition into prefix length p, the result is in
\* ascending order of base, every sub-block has prefix length p, and the i-th
\* sub-block (from 0) has base = block.base + i * 2^(32 - p); 192.168.1.0/24
\* by count 4 gives .0/26, .64/26, .128/26, .192/26.
C5_PartitionBases ==
    Partitioned =>
        LET blk  == PartitionBlock
            subs == ret.subnets
            p    == PartitionTarget
        IN  /\ \A i \in 1..Len(subs) :
                  /\ subs[i].prefix = p
                  /\ subs[i].base = WAdd(blk.base, WTimes(i - 1, WPow2(32 - p)))
            /\ \A i \in 1..(Len(subs) - 1) : WLt(subs[i].base, subs[i + 1].base)
            /\ (/\ args.network_str = Cidr(<<192, 168, 1, 0>>, 24)
                /\ args.num_subnets = 4)
               => subs = << Net(Dotted(192, 168, 1, 0), 26),
                            Net(Dotted(192, 168, 1, 64), 26),
                            Net(Dotted(192, 168, 1, 128), 26),
                            Net(Dotted(192, 168, 1, 192), 26) >>

C5_Witness ==
    /\ Partitioned
    /\ args.network_str = Cidr(<<192, 168, 1, 0>>, 24)
    /\ args.num_subnets = 4
    /\ Len(ret.subnets) = 4

\* what C6 states of every host count 1 <= h <= 2^32 - 2, but for its
\* examples: the call succeeds with 32 - b, b the smallest integer >= 0 with
\* 2^b >= h + 2; equivalently the prefix p returned has 2^(32 - p) - 2 >= h
\* and no longer prefix has
SizerFormula ==
    LET h == args.num_hosts
        b == CHOOSE b \in 0..32 :
                /\ WLe(WAdd(h, W(2)), WPow2(b))
                /\ \A c \in 0..(b - 1) : WLt(WPow2(c), WAdd(h, W(2)))
    IN  /\ ret.ok
        /\ ret.prefix = 32 - b
        /\ WLe(h, WSub(WPow2(32 - ret.prefix), W(2)))
        /\ ret.prefix < 32 => WLt(WSub(WPow2(31 - ret.prefix), W(2)), h)

SizerInRange ==
    /\ op = "find_subnet_for_hosts"
    /\ WLe(W(1), args.num_hosts)
    /\ WLe(args.num_hosts, WSub(WPow2(32), W(2)))

C7_OneHostIsSlash31 ==
    (op = "find_subnet_for_hosts" /\ args.num_hosts = W(1))
    => (ret.ok /\ ret.prefix = 31)

\* C8: get_supernet(["192.168.1.0/24", "192.168.2.0/24"]) returns
\* 192.168.0.0/23.
C8_TwoAdjacentSlash24 ==
    (/\ op = "get_supernet"
     /\ args.networks = << Cidr(<<192, 168, 1, 0>>, 24), Cidr(<<192, 168, 2, 0>>, 24) >>)
    => (ret.ok /\ ret.value = << Net(Dotted(192, 168, 0, 0), 23) >>)

\* C9: the parser does not require a network address.  For every address a
\* with octets in [0,255] and every prefix length n in [0,32], parsing "a/n"
\* succeeds and returns prefix length n and base = a with its low 32 - n bits
\* cleared (192.168.1.5/24 -> 192.168.1.0/24).
C9_ParserClearsHostBits ==
    (/\ op = "validate_ip_network"
     /\ args.network_str.form = "cidr"
     /\ \A i \in 1..4 : args.network_str.addr[i] \in 0..255
     /\ args.network_str.plen \in 0..32)
    => LET a == args.network_str.addr
           n == args.network_str.plen
       IN  /\ ret.ok
           /\ ret.net.prefix = n
           /\ ret.net.base = ClearLow(Dotted(a[1], a[2], a[3], a[4]), 32 - n)
           /\ (a = <<192, 168, 1, 5>> /\ n = 24)
              => ret.net = Net(Dotted(192, 168, 1, 0), 24)

C9_Witness ==
    /\ op = "validate_ip_network"
    /\ args.network_str = Cidr(<<192, 168, 1, 5>>, 24)
    /\ ret.ok
    /\ ret.net = Net(Dotted(192, 168, 1, 0), 24)

\* C10: for every valid block, get_network_info reports mask = the top
\* prefixLength bits set, wildcard = the 32-bit complement of the mask (per
\* octet 255 - mask octet), and broadcast = base | wildcard; 192.168.1.0/24
\* has mask 255.255.255.0, wildcard 0.0.0.255, broadcast 192.168.1.255.
C10_MaskWildcardBroadcast ==
    (op = "get_network_info" /\ ret.ok)
    => LET n        == ret.PrefixLength
           mask     == IntFromOctets(ret.SubnetMask)
           wildcard == IntFromOctets(ret.WildcardMask)
           base     == IntFromOctets(ret.NetworkAddress)
       IN  /\ mask = WSub(WPow2(32), WPow2(32 - n))
           /\ \A i \in 1..4 : ret.WildcardMask[i] = 255 - ret.SubnetMask[i]
           /\ WAdd(mask, wildcard) = WSub(WPow2(32), W(1))
           /\ IntFromOctets(ret.BroadcastAddress) = WOr(base, wildcard)
           /\ (base = Dotted(192, 168, 1, 0) /\ n = 24)
              => /\ ret.SubnetMask = <<255, 255, 255, 0>>
                 /\ ret.WildcardMask = <<0, 0, 0, 255>>
                 /\ ret.BroadcastAddress = <<192, 168, 1, 255>>

C10_Witness ==
    /\ op = "get_network_info"
    /\ args.network_str = Cidr(<<192, 168, 1, 0>>, 24)
    /\ ret.ok
    /\ ret.SubnetMask = <<255, 255, 255, 0>>
    /\ ret.WildcardMask = <<0, 0, 0, 255>>
    /\ ret.BroadcastAddress = <<192, 168, 1, 255>>

\* C11: for every valid block, the usable host count get_network_info
\* reports is 2^(32 - prefixLength) - 2 when prefixLength < 31 and
\* 2^(32 - prefixLength) otherwise; a /31 reports 2 and a /32 reports 1.
C11_UsableHostCount ==
    (op = "get_network_info" /\ ret.ok)
    => LET n == ret.PrefixLength
       IN  /\ n < 31 => WAdd(ret.NumberOfHosts, W(2)) = WPow2(32 - n)
           /\ n >= 31 => ret.NumberOfHosts = WPow2(32 - n)
           /\ n = 31 => ret.NumberOfHosts = W(2)
           /\ n = 32 => ret.NumberOfHosts = W(1)

C11_Witness ==
    /\ op = "get_network_info"
    /\ args.network_str = Cidr(<<192, 168, 1, 5>>, 31)
    /\ ret.ok
    /\ ret.PrefixLength = 31
    /\ ret.NumberOfHosts = W(2)

\* the block get_network_info reports on, and its broadcast address
InfoBase == IntFromOctets(ret.NetworkAddress)

InfoBroadcast == IntFromOctets(ret.BroadcastAddress)

InfoFirst == IntFromOctets(ret.RangeFirst)

InfoLast == IntFromOctets(ret.RangeLast)

\* C12 as stated: for every valid block with prefixLength <= 31 the usable
\* range reported is firstHost = base + 1 and lastHost = broadcast - 1; for
\* a /32 it is firstHost = base and lastHost = broadcast.
C12_AsStated ==
    (op = "get_network_info" /\ ret.ok)
    => /\ ret.PrefixLength <= 31
          => /\ InfoFirst = WAdd(InfoBase, W(1))
             /\ InfoLast = WSub(InfoBroadcast, W(1))
       /\ ret.PrefixLength = 32
          => /\ InfoFirst = InfoBase
             /\ InfoLast = InfoBroadcast

\* C12 amended: for every valid block with prefixLength <= 30 the usable
\* range reported is firstHost = base + 1 and lastHost = broadcast - 1; for
\* a /31 and for a /32 it is firstHost = base and lastHost = broadcast.
C12_UsableRange ==
    (op = "get_network_info" /\ ret.ok)
    => /\ ret.PrefixLength <= 30
          => /\ InfoFirst = WAdd(InfoBase, W(1))
             /\ InfoLast = WSub(InfoBroadcast, W(1))
       /\ ret.PrefixLength >= 31
          => /\ InfoFirst = InfoBase
             /\ InfoLast = InfoBroadcast

C12_Witness ==
    /\ op = "get_network_info"
    /\ args.network_str = Cidr(<<192, 168, 1, 5>>, 31)
    /\ ret.ok
    /\ ret.RangeFirst = <<192, 168, 1, 4>>
    /\ ret.RangeLast = <<192, 168, 1, 5>>

\* the blocks given are 2^k distinct blocks of one prefix length p, all
\* inside the aligned block of prefix length p - k that holds the first:
\* they are the complete set of its parts
TiledBy(k) ==
    LET p == InputBlocks[1].prefix
        n == Len(InputBlocks)
    IN  /\ n = 2^k
        /\ p >= k
        /\ \A i \in 1..n : InputBlocks[i].prefix = p
        /\ \A i, j \in 1..n : i # j => InputBlocks[i] # InputBlocks[j]
        /\ \A i \in 1..n :
              ClearLow(InputBlocks[i].base, 32 - (p - k))
                  = ClearLow(InputBlocks[1].base, 32 - (p - k))

TiledBlock(k) ==
    Net(ClearLow(InputBlocks[1].base, 32 - (InputBlocks[1].prefix - k)),
        InputBlocks[1].prefix - k)

\* C13: given the complete set of 2^k equal-size sub-blocks that tile an
\* aligned block b, in any order, get_supernet returns exactly b: the eight
\* /24s 10.10.0.0 .. 10.10.7.0 give 10.10.0.0/21 and the four /24s
\* 172.16.16.0 .. 172.16.19.0 give 172.16.16.0/22.
C13_TilingCollapsesToBlock ==
    Collapsed =>
        /\ \A k \in 0..MaxTileBits : TiledBy(k) => ret.value = <<TiledBlock(k)>>
        /\ args.networks = [i \in 1..8 |-> Cidr(<<10, 10, i - 1, 0>>, 24)]
           => ret.value = << Net(Dotted(10, 10, 0, 0), 21) >>
        /\ args.networks = [i \in 1..4 |-> Cidr(<<172, 16, 15 + i, 0>>, 24)]
           => ret.value = << Net(Dotted(172, 16, 16, 0), 22) >>

C13_Witness ==
    /\ Collapsed
    /\ args.networks = [i \in 1..8 |-> Cidr(<<10, 10, i - 1, 0>>, 24)]
    /\ TiledBy(3)
    /\ ret.value = << Net(Dotted(10, 10, 0, 0), 21) >>

\* the sequence collapse_addresses yields inside a successful get_supernet
\* call
CollapsedBlocks == collapse_addresses(InputBlocks)

\* a and b are the two halves of one aligned block
Siblings(a, b) ==
    /\ a # b
    /\ a.prefix = b.prefix
    /\ a.prefix > 0
    /\ ClearLow(a.base, 33 - a.prefix) = ClearLow(b.base, 33 - b.prefix)

PartitionCall == op = "subnet_network" /\ validate_ip_network(args.network_str).ok

\* n is 2^k for some k >= 0
PowerOfTwo(n) == \E k \in 0..30 : n = 2^k

Log2(n) == CHOOSE k \in 0..30 : n = 2^k

\* the call is by count: a count is given, or nothing is (a given prefix
\* length is used only when the count is not positive)
ByCount == args.num_subnets > 0 \/ args.new_prefix_length <= 0

\* C15: for every valid block, a subnet_network call by count n fails, with
\* an error and no sub-blocks, whenever n is not a power of two with n >= 1;
\* 192.168.1.0/24 by count 3 fails.
C15_CountNotPowerOfTwoFails ==
    (PartitionCall /\ ByCount /\ ~PowerOfTwo(args.num_subnets))
    => /\ ~ret.ok
       /\ "subnets" \notin DOMAIN ret
       /\ args.num_subnets > 0 => ret.err = "not_power_of_2"

C15_Witness ==
    /\ PartitionCall
    /\ args.network_str = Cidr(<<192, 168, 1, 0>>, 24)
    /\ args.num_subnets = 3
    /\ args.new_prefix_length = 0
    /\ ~ret.ok
    /\ ret.err = "not_power_of_2"

\* C16: for every valid block of prefix length q, a subnet_network call by
\* a count n that is a power of two fails exactly when q + log2(n) > 32, and
\* the failure reports 2^(32 - q) as the maximum number of subnets; when
\* q + log2(n) <= 32 it succeeds.
C16_CountExceedsAddressSpace ==
    (PartitionCall /\ args.num_subnets > 0 /\ PowerOfTwo(args.num_subnets))
    => LET q == PartitionBlock.prefix
           k == Log2(args.num_subnets)
       IN  /\ q + k > 32
              => /\ ~ret.ok
                 /\ ret.err = "too_many"
                 /\ ret.max = WPow2(32 - q)
           /\ q + k <= 32
              => /\ ret.ok
                 /\ Len(ret.subnets) = args.num_subnets

C16_Witness ==
    /\ PartitionCall
    /\ args.network_str = Cidr(<<192, 168, 1, 0>>, 30)
    /\ args.num_subnets = 8
    /\ ~ret.ok
    /\ ret.err = "too_many"
    /\ ret.max = W(4)

\* the call is by prefix length: the count is left at its default
ByPrefix == args.num_subnets = 0

\* C17 as stated: for every valid block of prefix length q, a
\* subnet_network call by prefix length p fails with the prefix-not-larger
\* error for every p <= q and with the prefix-too-long error for every
\* p > 32, and succeeds for every p with q < p <= 32.
C17_AsStated ==
    (PartitionCall /\ ByPrefix)
    => LET q == PartitionBlock.prefix
           p == args.new_prefix_length
       IN  /\ p <= q => (~ret.ok /\ ret.err = "not_larger")
           /\ p > 32 => (~ret.ok /\ ret.err = "too_long")
           /\ (q < p /\ p <= 32) => ret.ok

\* C17 amended: a call by prefix length p fails with the prefix-not-larger
\* error for every p with 1 <= p <= q, with the error that neither a count
\* nor a prefix length is given for every p <= 0, and with the
\* prefix-too-long error for every p > 32; it succeeds, with 2^(p - q)
\* sub-blocks, for every p with q < p <= 32.
C17_PrefixModeErrors ==
    (PartitionCall /\ ByPrefix)
    => LET q == PartitionBlock.prefix
           p == args.new_prefix_length
       IN  /\ p <= 0 => (~ret.ok /\ ret.err = "neither")
           /\ (1 <= p /\ p <= q) => (~ret.ok /\ ret.err = "not_larger")
           /\ p > 32 => (~ret.ok /\ ret.err = "too_long")
           /\ (q < p /\ p <= 32) => (ret.ok /\ Len(ret.subnets) = 2^(p - q))

C17_Witness ==
    /\ PartitionCall
    /\ args.network_str = Cidr(<<192, 168, 1, 0>>, 24)
    /\ args.num_subnets = 0
    /\ args.new_prefix_length = 24
    /\ ~ret.ok
    /\ ret.err = "not_larger"

\* the largest host count an IPv4 network holds: 2^32 - 2
SizerCapacity == WSub(WPow2(32), W(2))

\* C18: find_subnet_for_hosts fails exactly when the host count is <= 0,
\* with the non-positive error, or is > 2^32 - 2, with the capacity error:
\* 2^32 - 2 succeeds with prefix length 0, 2^32 - 1 fails, and no call
\* returns a negative prefix length.
C18_SizerFailsExactly ==
    op = "find_subnet_for_hosts"
    => LET h == args.num_hosts
       IN  /\ WLe(h, W(0)) => (~ret.ok /\ ret.err = "not_positive")
           /\ WLt(SizerCapacity, h) => (~ret.ok /\ ret.err = "capacity")
           /\ (WLt(W(0), h) /\ WLe(h, SizerCapacity)) => ret.ok
           /\ h = SizerCapacity => (ret.ok /\ ret.prefix = 0)
           /\ h = WAdd(SizerCapacity, W(1)) => ~ret.ok
           /\ ret.ok => ret.prefix \in 0..32

C18_Witness ==
    /\ op = "find_subnet_for_hosts"
    /\ args.num_hosts = WSub(WPow2(32), W(1))
    /\ ~ret.ok
    /\ ret.err = "capacity"

\* C19: monotonicity of find_subnet_for_hosts.  For all host counts
\* h1 < h2 on which it succeeds, the prefix length returned for h1 is >= the
\* one returned for h2.
C19_SizerMonotone ==
    (op = "find_subnet_for_hosts" /\ ret.ok)
    => \A h2 \in HostCounts :
          LET r2 == find_subnet_for_hosts(h2)
          IN  (WLt(args.num_hosts, h2) /\ r2.ok) => ret.prefix >= r2.prefix

C19_Witness ==
    /\ op = "find_subnet_for_hosts"
    /\ args.num_hosts = W(2)
    /\ ret.ok
    /\ ret.prefix = 30
    /\ W(3) \in HostCounts
    /\ find_subnet_for_hosts(W(3)).ok
    /\ find_subnet_for_hosts(W(3)).prefix = 29

\* the number of one-bits of an octet and of a mask of four octets
OctetOnes(o) == Cardinality({ k \in 0..7 : (o \div 2^k) % 2 = 1 })

OnesCount(mask) ==
    OctetOnes(mask[1]) + OctetOnes(mask[2]) + OctetOnes(mask[3]) + OctetOnes(mask[4])

\* a validate_ip_network call on "a.b.c.d e.f.g.h" with the octets of the
\* address and of the mask in [0,255]
MaskFormCall ==
    /\ op = "validate_ip_network"
    /\ args.network_str.form = "mask"
    /\ ValidOctets(args.network_str.addr)
    /\ ValidOctets(args.network_str.mask)

\* C20 as stated: in the address-plus-mask form the prefix length derived
\* from the mask is the number of leading one-bits of the 32-bit mask, for
\* every mask, contiguous or not.
C20_AsStated ==
    MaskFormCall => (ret.ok /\ ret.net.prefix = LeadingOnes(args.network_str.mask))

\* C20 amended: in the address-plus-mask form the prefix length derived
\* from the mask is the number of one-bits of the 32-bit mask, wherever they
\* are: for a contiguous mask that is the number of leading one-bits
\* (255.255.255.0 -> 24), for 255.0.255.0 it is 16.
C20_MaskOnesCount ==
    MaskFormCall
    => LET mask == args.network_str.mask
       IN  /\ ret.ok
           /\ ret.net.prefix = OnesCount(mask)
           /\ mask = <<255, 255, 255, 0>> => ret.net.prefix = 24
           /\ mask = <<255, 0, 255, 0>> => ret.net.prefix = 16
           /\ IntFromOctets(mask) = WSub(WPow2(32), WPow2(32 - LeadingOnes(mask)))
              => ret.net.prefix = LeadingOnes(mask)

C20_Witness ==
    /\ MaskFormCall
    /\ args.network_str.mask = <<255, 0, 255, 0>>
    /\ LeadingOnes(args.network_str.mask) = 8
    /\ ret.ok
    /\ ret.net.prefix = 16

\* C21: validate_ip_network fails whenever an octet of the address or of
\* the mask is outside [0,255] or the prefix length, given or derived from
\* the mask, is outside [0,32]; it returns a block only when all of them are
\* in range.
C21_ParserRangeFailures ==
    (op = "validate_ip_network" /\ args.network_str.form # "junk")
    => LET t == args.network_str
       IN  ret.ok <=>
              /\ ValidOctets(t.addr)
              /\ t.form = "cidr" => t.plen \in 0..32
              /\ t.form = "mask" => (ValidOctets(t.mask) /\ OnesCount(t.mask) \in 0..32)

\* the dotted mask with the top n bits set, 0 <= n <= 32
TopBitsMask(n) ==
    [i \in 1..4 |->
        IF n >= 8 * i THEN 255
        ELSE IF n <= 8 * (i - 1) THEN 0
        ELSE 256 - 2^(8 * i - n)]

\* C22: the two textual forms are equivalent.  For every address a and
\* prefix length n in [0,32], validate_ip_network on "a <mask with the top
\* n bits set>" returns what it returns on "a/n": the same base and prefix
\* length, or a failure when a is not an address; "192.168.1.0
\* 255.255.255.0" gives 192.168.1.0/24.
C22_MaskFormEqualsCidrForm ==
    (op = "validate_ip_network" /\ args.network_str.form = "mask")
    => \A n \in 0..32 :
          args.network_str.mask = TopBitsMask(n)
          => /\ ret = validate_ip_network(Cidr(args.network_str.addr, n))
             /\ ValidOctets(args.network_str.addr)
                => /\ ret.ok
                   /\ ret.net.prefix = n
                   /\ ret.net.base
                        = ClearLow(IntFromOctets(args.network_str.addr), 32 - n)
             /\ (args.network_str.addr = <<192, 168, 1, 0>> /\ n = 24)
                => ret.net = Net(Dotted(192, 168, 1, 0), 24)

C22_Witness ==
    /\ op = "validate_ip_network"
    /\ args.network_str = Mask(<<192, 168, 1, 5>>, <<255, 255, 254, 0>>)
    /\ TopBitsMask(23) = <<255, 255, 254, 0>>
    /\ ret.ok
    /\ ret.net = Net(Dotted(192, 168, 0, 0), 23)
    /\ ret = validate_ip_network(Cidr(<<192, 168, 1, 5>>, 23))

\* the number of trailing zero bits of a 32-bit value (32 for 0)
TrailingZeroBits(a) ==
    CHOOSE k \in 0..32 :
        /\ ClearLow(a, k) = a
        /\ k < 32 => ClearLow(a, k + 1) # a

\* C23 as stated: for every valid address and prefix length,
\* get_network_info reports a network address with exactly 32 - prefix
\* trailing zero bits.
C23_AsStated ==
    (op = "get_network_info" /\ ret.ok)
    => TrailingZeroBits(InfoBase) = 32 - ret.PrefixLength

\* C23 amended: for every valid address and prefix length,
\* get_network_info reports a network address with at least 32 - prefix
\* trailing zero bits: the address given with its low 32 - prefix bits
\* cleared.
C23_BaseHasHostBitsClear ==
    (op = "get_network_info" /\ ret.ok)
    => /\ TrailingZeroBits(InfoBase) >= 32 - ret.PrefixLength
       /\ InfoBase = ClearLow(IntFromOctets(args.network_str.addr),
                              32 - ret.PrefixLength)
       /\ ret.CIDR = Net(InfoBase, ret.PrefixLength)

C23_Witness ==
    /\ op = "get_network_info"
    /\ args.network_str = Cidr(<<10, 10, 0, 0>>, 24)
    /\ ret.ok
    /\ ret.NetworkAddress = <<10, 10, 0, 0>>
    /\ ret.PrefixLength = 24
    /\ TrailingZeroBits(InfoBase) = 17

\* the class the thresholds give an octet: each octet is in one range only
ClassOfOctet(o) ==
    CHOOSE c \in {"A", "B", "C", "D (Multicast)", "E (Reserved)"} :
        \/ c = "A" /\ o \in 0..127
        \/ c = "B" /\ o \in 128..191
        \/ c = "C" /\ o \in 192..223
        \/ c = "D (Multicast)" /\ o \in 224..239
        \/ c = "E (Reserved)" /\ o \in 240..255

\* C24: the class get_network_info reports depends only on the first octet
\* o of the network address: A when o < 128, B when 128 <= o < 192, C when
\* 192 <= o < 224, D (multicast) when 224 <= o < 240, E (reserved) when
\* o >= 240; every octet value 0..255 has exactly one class.
C24_AddressClass ==
    (op = "get_network_info" /\ ret.ok)
    => /\ ret.NetworkClass = ClassOfOctet(ret.NetworkAddress[1])
       /\ \A o \in 0..255 :
             /\ get_ip_class(IntFromOctets(<<o, 0, 0, 0>>)) = ClassOfOctet(o)
             /\ get_ip_class(IntFromOctets(<<o, 255, 255, 255>>)) = ClassOfOctet(o)
             /\ Cardinality({ r \in {0..127, 128..191, 192..223, 224..239, 240..255} :
                                o \in r }) = 1

C24_Witness ==
    /\ op = "get_network_info"
    /\ args.network_str = Cidr(<<192, 168, 1, 5>>, 1)
    /\ ret.ok
    /\ ret.NetworkAddress = <<128, 0, 0, 0>>
    /\ ret.NetworkClass = "B"

\* C25: get_supernet called with an empty list fails with the empty-input
\* error and returns no block.
C25_EmptyCollapseFails ==
    (op = "get_supernet" /\ Len(args.networks) = 0)
    => /\ ~ret.ok
       /\ ret.err = "empty"
       /\ "value" \notin DOMAIN ret

C25_Witness ==
    /\ op = "get_supernet"
    /\ args.networks = <<>>
    /\ ~ret.ok
    /\ ret.err = "empty"

CoveredByInput(b) ==
    LET idx    == 1..Len(InputBlocks)
        starts == {BlockLo(b)}
                  \cup { WAdd(BlockHi(InputBlocks[i]), W(1)) : i \in idx }
    IN  \A x \in starts :
           (WLe(BlockLo(b), x) /\ WLe(x, BlockHi(b)))
           => \E i \in idx : /\ WLe(BlockLo(InputBlocks[i]), x)
                              /\ WLe(x, BlockHi(InputBlocks[i]))

Canonical(b) ==
    /\ b.prefix \in 0..32
    /\ b.base[1] \in 0..(2^16 - 1)
    /\ b.base[2] \in 0..(2^16 - 1)
    /\ ClearLow(b.base, 32 - b.prefix) = b.base

\* C28: every block an operation produces is in canonical form: the block
\* validate_ip_network returns, every sub-block subnet_network returns, and
\* every block get_supernet returns or collapses to.
C28_CanonicalForm ==
    /\ (op = "validate_ip_network" /\ ret.ok) => Canonical(ret.net)
    /\ (op = "get_network_info" /\ ret.ok) => Canonical(ret.CIDR)
    /\ Partitioned => \A i \in 1..Len(ret.subnets) : Canonical(ret.subnets[i])
    /\ Collapsed
       => /\ \A j \in 1..Len(ret.value) : Canonical(ret.value[j])
          /\ \A j \in 1..Len(CollapsedBlocks) : Canonical(CollapsedBlocks[j])

C28_Witness ==
    /\ Partitioned
    /\ args.network_str = Cidr(<<170, 170, 170, 170>>, 22)
    /\ args.num_subnets = 4
    /\ Len(ret.subnets) = 4
    /\ ret.subnets[4] = Net(Dotted(170, 170, 171, 0), 24)
    /\ Canonical(ret.subnets[4])

\* the networks of the list are all valid
AllValid(networks) ==
    \A i \in 1..Len(networks) : validate_ip_network(networks[i]).ok

C30_SubnetModeErrorsReported ==
    (op = "main" /\ args.mode = "subnet")
    => /\ ~ret.uncaught
       /\ ret.out # "subnets" => (ret.out = "Error" /\ ret.status = 1)
       /\ (args.num_subnets.given /\ ~PowerOfTwo(args.num_subnets.value))
          => (ret.out = "Error" /\ ret.status = 1)

====
